---- MODULE Spec2Model ----
(***************************************************************************)
(* stevedore: NamedExtensionManager (named.py) and DriverManager           *)
(* (driver.py) on top of the ExtensionManager base (extension.py).         *)
(*                                                                         *)
(* Strings that the code formats (error messages, joined targets) are      *)
(* sequences of tokens; a name, a namespace or an entry point target is    *)
(* one token.  Python values that are tested for truth are records         *)
(* [kind, of]: kind tells None / empty (falsy) / instance or value         *)
(* (truthy) / class, and "of" the entry point they come from.              *)
(***************************************************************************)
EXTENDS Naturals, Sequences, FiniteSets

\* Bounds of the model: length of the discovered sequence and of the allow-list.
MaxD == 3
MaxN == 2

VARIABLES
    pc,                       \* "start" | "done" (constructor returned) | "failed" (it raised)
    cls,                      \* class of the manager: "none", "NamedExtensionManager", "DriverManager"
    discovered,               \* what the discovery collaborator yields for the namespace
    invoke_on_load,           \* constructor argument
    name_order,               \* constructor argument
    namespace,                \* self.namespace
    _names,                   \* self._names
    extensions,               \* self.extensions
    propagate_map_exceptions, \* self.propagate_map_exceptions
    loaded,                   \* what _load_plugins returned, before any reordering
    test_args,                \* <<>>, or <<a>>: the arguments make_test_instance was given
    raised,                   \* <<>>, or <<e>>: the error the constructor raised
    events,                   \* discovery / resolution / instantiation calls, in order
    ret                       \* outcome of the last driver / __call__ use

vars == <<pc, cls, discovered, invoke_on_load, name_order, namespace, _names,
          extensions, propagate_map_exceptions, loaded, test_args, raised,
          events, ret>>

----------------------------------------------------------------------------
\* The environment: names, entry points, callbacks.

Names == {"a", "b", "c"}

\* The entry points the discovery collaborator may yield.  outcome says what
\* resolving and calling the target does: "instance" and "empty" are a truthy
\* and a falsy object returned by the call, "resolve_raise" and "invoke_raise"
\* raise in ep.load() and in plugin(*args, **kwds).
Registry ==
    { [name |-> "a", target |-> "m:A1", outcome |-> "instance"],
      [name |-> "a", target |-> "m:A2", outcome |-> "empty"],
      [name |-> "b", target |-> "m:B1", outcome |-> "instance"],
      [name |-> "b", target |-> "m:B2", outcome |-> "resolve_raise"],
      [name |-> "c", target |-> "m:C1", outcome |-> "instance"],
      [name |-> "c", target |-> "m:C2", outcome |-> "invoke_raise"] }

\* Sequences of distinct entry points, at most MaxD long.
Discoveries ==
    UNION { { s \in [1..n -> Registry] :
                \A i, j \in 1..n : i # j => s[i].target # s[j].target } : n \in 0..MaxD }

AllowLists == UNION { [1..n -> Names] : n \in 0..MaxN }

NoneVal == [kind |-> "None", of |-> ""]

Truthy(v) == v.kind \notin {"None", "empty"}

\* What func(ext) does in map / __call__.
FuncBehaviours == {"value", "empty", "None", "raise"}

TestObjKinds == {"None", "instance", "empty"}

\* Extensions a test may pre-build.
TestExtensions ==
    { [name |-> n, entry_point_target |-> "t:T",
       plugin |-> [kind |-> "class", of |-> "t:T"],
       obj |-> IF k = "None" THEN NoneVal ELSE [kind |-> k, of |-> "t:T"]] :
      n \in {"a", "b"}, k \in TestObjKinds }

----------------------------------------------------------------------------
\* Python list helpers.

\* x in s
InSeq(x, s) == \E i \in 1..Len(s) : s[i] = x

\* s.index(x), counted from 1; x is in s
Index(s, x) == CHOOSE i \in 1..Len(s) : s[i] = x /\ \A j \in 1..(i-1) : s[j] # x

\* [e.name for e in exts]
NamesOf(exts) == [i \in 1..Len(exts) |-> exts[i].name]

\* sep.join(parts), as tokens
RECURSIVE Join(_, _)
Join(sep, parts) ==
    IF parts = <<>> THEN <<>>
    ELSE IF Len(parts) = 1 THEN <<parts[1]>>
    ELSE <<parts[1], sep>> \o Join(sep, Tail(parts))

----------------------------------------------------------------------------
\* ExtensionManager (extension.py): the base the two classes build on.

NoLoad == [ext |-> <<>>, err |-> <<>>, ev |-> <<>>]

\* ExtensionManager._load_one_plugin: resolve the entry point, call the plugin
\* if invoke_on_load, wrap the result in an Extension.
BaseLoadOnePlugin(ep, inv) ==
    LET resolve == [op |-> "resolve", target |-> ep.target]
        invoke  == [op |-> "invoke", target |-> ep.target]
        plugin  == [kind |-> "class", of |-> ep.target]
        Ext(obj) == [name |-> ep.name, entry_point_target |-> ep.target,
                     plugin |-> plugin, obj |-> obj]
    IN  IF ep.outcome = "resolve_raise"
        THEN [ext |-> <<>>, err |-> << <<"ImportError: ", ep.target>> >>, ev |-> <<resolve>>]
        ELSE IF ~inv
        THEN [ext |-> <<Ext(NoneVal)>>, err |-> <<>>, ev |-> <<resolve>>]
        ELSE IF ep.outcome = "invoke_raise"
        THEN [ext |-> <<>>, err |-> << <<"TypeError: ", ep.target>> >>, ev |-> <<resolve, invoke>>]
        ELSE [ext |-> <<Ext([kind |-> ep.outcome, of |-> ep.target])>>,
              err |-> <<>>, ev |-> <<resolve, invoke>>]

\* The entry point is loaded first and the allow-list applied to the result.
NamedLoadOnePlugin_CheckAfterLoad(nm, ep, inv) ==
    LET r == BaseLoadOnePlugin(ep, inv)
    IN  IF ~InSeq(ep.name, nm) THEN [r EXCEPT !.ext = <<>>, !.err = <<>>] ELSE r

\* The allow-list test looks at the first name only.
NamedLoadOnePlugin_FirstName(nm, ep, inv) ==
    IF nm = <<>> \/ ep.name # Head(nm) THEN NoLoad ELSE BaseLoadOnePlugin(ep, inv)

\* NamedExtensionManager._load_one_plugin: the name is checked first.
NamedLoadOnePlugin(nm, ep, inv) ==
    IF ~InSeq(ep.name, nm) THEN NoLoad ELSE BaseLoadOnePlugin(ep, inv)

\* self._load_one_plugin of class c
LoadOnePlugin(c, nm, ep, inv) ==
    IF c \in {"NamedExtensionManager", "DriverManager"}
    THEN NamedLoadOnePlugin(nm, ep, inv)
    ELSE BaseLoadOnePlugin(ep, inv)

\* The loop of ExtensionManager._load_plugins from entry point i on; acc holds
\* the extensions and events so far.  An error is logged and the entry point
\* skipped, or, with catch_exception false, raised at once.
RECURSIVE LoadFrom(_, _, _, _, _, _, _)
LoadFrom(c, nm, D, inv, catch_exception, i, acc) ==
    IF i > Len(D) THEN acc
    ELSE LET r  == LoadOnePlugin(c, nm, D[i], inv)
             ev == acc.ev \o r.ev
         IN  IF r.err # <<>>
             THEN IF catch_exception
                  THEN LoadFrom(c, nm, D, inv, catch_exception, i + 1,
                                [acc EXCEPT !.ev = ev])
                  ELSE [exts |-> acc.exts, err |-> r.err, ev |-> ev]
             ELSE LoadFrom(c, nm, D, inv, catch_exception, i + 1,
                           [exts |-> acc.exts \o r.ext, err |-> <<>>, ev |-> ev])

\* ExtensionManager._load_plugins: one discovery call, then the loop.
BaseLoadPlugins(c, ns, nm, D, inv, catch_exception) ==
    LoadFrom(c, nm, D, inv, catch_exception, 1,
             [exts |-> <<>>, err |-> <<>>,
              ev |-> <<[op |-> "discover", target |-> ns]>>])

----------------------------------------------------------------------------
\* DriverManager (driver.py)

RuntimeError(msg) == [type |-> "RuntimeError", msg |-> msg]

\* names[0] with names = None
NoneSubscript == [type |-> "TypeError", msg |-> <<"'NoneType' object is not subscriptable">>]

\* DriverManager._load_plugins.  names is <<>> for None, <<l>> for a list l.
DriverLoadPlugins(ns, nm, D, inv, names) ==
    LET r == BaseLoadPlugins("DriverManager", ns, nm, D, inv, FALSE)
    IN  IF r.err = <<>>
        THEN [exts |-> r.exts, raised |-> <<>>, ev |-> r.ev]
        ELSE [exts |-> <<>>, ev |-> r.ev,
              raised |->
                IF names = <<>>
                THEN <<NoneSubscript>>
                ELSE <<RuntimeError(<<"Unable to load driver ", names[1][1], " from ", ns, ": ">>
                                    \o r.err[1])>>]

\* self._load_plugins(invoke_on_load, invoke_args, invoke_kwds) of class c
LoadPlugins(c, ns, nm, D, inv) ==
    IF c = "DriverManager"
    THEN DriverLoadPlugins(ns, nm, D, inv, <<>>)
    ELSE LET r == BaseLoadPlugins(c, ns, nm, D, inv, TRUE)
         IN  [exts |-> r.exts, raised |-> <<>>, ev |-> r.ev]

\* ExtensionManager._init_plugins
BaseInitPlugins(exts) == exts

\* The check for no driver is missing.
DriverInitPlugins_NoEmptyCheck(ns, nm, exts) ==
    IF Len(BaseInitPlugins(exts)) > 1
    THEN [extensions |-> <<>>,
          raised |-> <<RuntimeError(<<"Multiple ", "'", ns, "'", " drivers found: ">>
                         \o Join(",", [i \in 1..Len(exts) |-> exts[i].entry_point_target]))>>]
    ELSE [extensions |-> BaseInitPlugins(exts), raised |-> <<>>]

\* Only the first of the drivers found is reported.
DriverInitPlugins_FirstTarget(ns, nm, exts) ==
    IF BaseInitPlugins(exts) = <<>>
    THEN [extensions |-> <<>>,
          raised |-> <<RuntimeError(<<"No ", "'", ns, "'", " driver found, looking for ",
                                      "'", nm[1], "'">>)>>]
    ELSE IF Len(BaseInitPlugins(exts)) > 1
    THEN [extensions |-> <<>>,
          raised |-> <<RuntimeError(<<"Multiple ", "'", ns, "'", " drivers found: ">>
                         \o <<exts[1].entry_point_target>>)>>]
    ELSE [extensions |-> BaseInitPlugins(exts), raised |-> <<>>]

\* DriverManager._init_plugins: exactly one extension, or an error.
DriverInitPlugins(ns, nm, exts) ==
    LET self_extensions == BaseInitPlugins(exts)
    IN  IF self_extensions = <<>>
        THEN [extensions |-> <<>>,
              raised |-> <<RuntimeError(<<"No ", "'", ns, "'", " driver found, looking for ",
                                          "'", nm[1], "'">>)>>]
        ELSE IF Len(self_extensions) > 1
        THEN [extensions |-> <<>>,
              raised |-> <<RuntimeError(
                  <<"Multiple ", "'", ns, "'", " drivers found: ">>
                  \o Join(",", [i \in 1..Len(self_extensions) |->
                                   self_extensions[i].entry_point_target]))>>]
        ELSE [extensions |-> self_extensions, raised |-> <<>>]

\* self._init_plugins(extensions) of class c
InitPlugins(c, ns, nm, exts) ==
    IF c = "DriverManager"
    THEN DriverInitPlugins(ns, nm, exts)
    ELSE [extensions |-> BaseInitPlugins(exts), raised |-> <<>>]

\* ExtensionManager.__init__: load, then validate.
BaseInit(c, ns, nm, D, inv) ==
    LET lp == LoadPlugins(c, ns, nm, D, inv)
        ip == InitPlugins(c, ns, nm, lp.exts)
    IN  IF lp.raised # <<>>
        THEN [extensions |-> <<>>, loaded |-> <<>>, raised |-> lp.raised, ev |-> lp.ev]
        ELSE [extensions |-> ip.extensions, loaded |-> lp.exts,
              raised |-> ip.raised, ev |-> lp.ev]

----------------------------------------------------------------------------
\* NamedExtensionManager (named.py)

\* Where x goes in a list already sorted by key: after every element whose
\* key is not larger (list.sort is stable).
InsertByKey(sorted, x, names) ==
    LET p == Cardinality({ i \in 1..Len(sorted) :
                             Index(names, sorted[i].name) <= Index(names, x.name) })
    IN  SubSeq(sorted, 1, p) \o <<x>> \o SubSeq(sorted, p + 1, Len(sorted))

RECURSIVE SortFrom(_, _, _, _)
SortFrom(exts, names, i, acc) ==
    IF i > Len(exts) THEN acc
    ELSE SortFrom(exts, names, i + 1, InsertByKey(acc, exts[i], names))

\* The list is left in load order.
NameOrderSort_Unsorted(exts, names) == exts

\* The sorted copy is appended to the list instead of replacing it.
NameOrderSort_Extend(exts, names) == exts \o SortFrom(exts, names, 1, <<>>)

\* self.extensions.sort(key=lambda x: names.index(x.name)); every name is in names
NameOrderSort(exts, names) == SortFrom(exts, names, 1, <<>>)

\* names.index(x.name) of a name that is not in names
IndexError == [type |-> "ValueError", msg |-> <<"is not in list">>]

\* NamedExtensionManager.__init__ for class c (DriverManager inherits it).
NamedInit(c, ns, names, D, inv, order) ==
    LET b == BaseInit(c, ns, names, D, inv)
    IN  IF b.raised # <<>> \/ ~order
        THEN b
        ELSE IF \E i \in 1..Len(b.extensions) : ~InSeq(b.extensions[i].name, names)
        THEN [b EXCEPT !.extensions = <<>>, !.raised = <<IndexError>>]
        ELSE [b EXCEPT !.extensions = NameOrderSort(b.extensions, names)]

\* ExtensionManager.names
names == NamesOf(extensions)

----------------------------------------------------------------------------
\* DriverManager: construction, test construction, use.

\* DriverManager.__init__: names=[name], no name_order.
DriverInit(ns, name, D, inv) ==
    NamedInit("DriverManager", ns, <<name>>, D, inv, FALSE)

\* ExtensionManager.make_test_instance: the extensions are stored as given;
\* nothing is discovered, loaded or validated.
BaseMakeTestInstance(exts, ns, propagate) ==
    [namespace |-> ns, extensions |-> exts,
     propagate_map_exceptions |-> propagate, ev |-> <<>>]

\* propagate_map_exceptions is not passed on.
DriverMakeTestInstance_DropsPropagate(extension, ns, propagate) ==
    BaseMakeTestInstance(<<extension>>, IF ns = <<>> THEN "TESTING" ELSE ns[1], FALSE)

\* DriverManager.make_test_instance.  ns and propagate are <<>> when the caller
\* leaves them out, and then take their defaults.
DriverMakeTestInstance(extension, ns, propagate) ==
    BaseMakeTestInstance(<<extension>>,
                         IF ns = <<>> THEN "TESTING" ELSE ns[1],
                         IF propagate = <<>> THEN FALSE ELSE propagate[1])

\* func(ext): the value returned (it tells which extension it was computed on)
FuncResult(f, ext) ==
    IF f = "None" THEN NoneVal ELSE [kind |-> f, of |-> ext.entry_point_target]

\* ExtensionManager.map: func on every extension in order; a raise is logged
\* and skipped, or propagated at once.
RECURSIVE MapFrom(_, _, _, _, _)
MapFrom(exts, f, propagate, i, acc) ==
    IF i > Len(exts) THEN acc
    ELSE LET called == Append(acc.calls, exts[i].entry_point_target)
         IN  IF f = "raise"
             THEN IF propagate
                  THEN [results |-> acc.results, raised |-> TRUE, calls |-> called]
                  ELSE MapFrom(exts, f, propagate, i + 1, [acc EXCEPT !.calls = called])
             ELSE MapFrom(exts, f, propagate, i + 1,
                          [acc EXCEPT !.calls = called,
                                      !.results = Append(@, FuncResult(f, exts[i]))])

Map(exts, f, propagate) ==
    MapFrom(exts, f, propagate, 1, [results |-> <<>>, raised |-> FALSE, calls |-> <<>>])

\* The first result is tested for truth instead of the list.
DriverCall_TruthOfResult(exts, propagate, f) ==
    LET r == Map(exts, f, propagate)
    IN  IF r.raised
        THEN [outcome |-> "raise", val |-> NoneVal, calls |-> r.calls]
        ELSE IF r.results # <<>> /\ Truthy(r.results[1])
        THEN [outcome |-> "return", val |-> r.results[1], calls |-> r.calls]
        ELSE [outcome |-> "return", val |-> NoneVal, calls |-> r.calls]

\* DriverManager.__call__
DriverCall(exts, propagate, f) ==
    LET results == Map(exts, f, propagate)
    IN  IF results.raised
        THEN [outcome |-> "raise", val |-> NoneVal, calls |-> results.calls]
        ELSE IF results.results # <<>>
        THEN [outcome |-> "return", val |-> results.results[1], calls |-> results.calls]
        ELSE [outcome |-> "return", val |-> NoneVal, calls |-> results.calls]

\* DriverManager.driver
DriverProperty(exts) ==
    LET ext == exts[1]
    IN  IF Truthy(ext.obj) THEN ext.obj ELSE ext.plugin

----------------------------------------------------------------------------
\* The state machine.

NoRet == [op |-> "none", f |-> "", outcome |-> "", val |-> NoneVal, calls |-> <<>>]

Init ==
    /\ pc = "start"
    /\ cls = "none"
    /\ discovered = <<>>
    /\ invoke_on_load = FALSE
    /\ name_order = FALSE
    /\ namespace = ""
    /\ _names = <<>>
    /\ extensions = <<>>
    /\ propagate_map_exceptions = FALSE
    /\ loaded = <<>>
    /\ test_args = <<>>
    /\ raised = <<>>
    /\ events = <<>>
    /\ ret = NoRet

\* The manager fields after a constructor of class c ended with r.
Constructed(c, ns, nm, D, inv, order, r) ==
    /\ pc' = IF r.raised = <<>> THEN "done" ELSE "failed"
    /\ cls' = c
    /\ discovered' = D
    /\ invoke_on_load' = inv
    /\ name_order' = order
    /\ namespace' = ns
    /\ _names' = nm
    /\ extensions' = r.extensions
    /\ propagate_map_exceptions' = FALSE
    /\ loaded' = r.loaded
    /\ raised' = r.raised
    /\ events' = r.ev
    /\ UNCHANGED <<test_args, ret>>

\* NamedExtensionManager(namespace, names, invoke_on_load, name_order)
NewNamedExtensionManager(D, N, inv, order) ==
    /\ pc = "start"
    /\ Constructed("NamedExtensionManager", "X", N, D, inv, order,
                   NamedInit("NamedExtensionManager", "X", N, D, inv, order))

\* DriverManager(namespace, name, invoke_on_load)
NewDriverManager(D, name, inv) ==
    /\ pc = "start"
    /\ Constructed("DriverManager", "X", <<name>>, D, inv, FALSE,
                   DriverInit("X", name, D, inv))

\* DriverManager.make_test_instance(extension, namespace, propagate_map_exceptions)
MakeTestInstance(extension, ns, propagate) ==
    /\ pc = "start"
    /\ LET o == DriverMakeTestInstance(extension, ns, propagate)
       IN  /\ pc' = "done"
           /\ cls' = "DriverManager"
           /\ namespace' = o.namespace
           /\ extensions' = o.extensions
           /\ propagate_map_exceptions' = o.propagate_map_exceptions
           /\ events' = o.ev
           /\ test_args' = <<[extension |-> extension, namespace |-> ns,
                              propagate_map_exceptions |-> propagate]>>
    /\ UNCHANGED <<discovered, invoke_on_load, name_order, _names, loaded, raised, ret>>

\* manager.driver
Driver ==
    /\ pc = "done"
    /\ cls = "DriverManager"
    /\ extensions # <<>>
    /\ ret' = [op |-> "driver", f |-> "", outcome |-> "return",
               val |-> DriverProperty(extensions), calls |-> <<>>]
    /\ UNCHANGED <<pc, cls, discovered, invoke_on_load, name_order, namespace, _names,
                   extensions, propagate_map_exceptions, loaded, test_args, raised, events>>

\* manager(func)
Call(f) ==
    /\ pc = "done"
    /\ cls = "DriverManager"
    /\ LET r == DriverCall(extensions, propagate_map_exceptions, f)
       IN  ret' = [op |-> "call", f |-> f, outcome |-> r.outcome,
                   val |-> r.val, calls |-> r.calls]
    /\ UNCHANGED <<pc, cls, discovered, invoke_on_load, name_order, namespace, _names,
                   extensions, propagate_map_exceptions, loaded, test_args, raised, events>>

\* A manager is built once, by a constructor or by the factory, then used.
NamedCtor ==
    /\ pc = "start"
    /\ \E D \in Discoveries, N \in AllowLists, inv \in BOOLEAN, order \in BOOLEAN :
          NewNamedExtensionManager(D, N, inv, order)

DriverCtor ==
    /\ pc = "start"
    /\ \E D \in Discoveries, name \in Names, inv \in BOOLEAN :
          NewDriverManager(D, name, inv)

TestCtor ==
    /\ pc = "start"
    /\ \E extension \in TestExtensions, ns \in {<<>>, <<"Y">>},
          propagate \in {<<>>, <<TRUE>>, <<FALSE>>} :
          MakeTestInstance(extension, ns, propagate)

CallAny == pc = "done" /\ \E f \in FuncBehaviours : Call(f)

Next == NamedCtor \/ DriverCtor \/ TestCtor \/ Driver \/ CallAny

Spec == Init /\ [][Next]_vars

----------------------------------------------------------------------------
\* Vocabulary of the properties.

\* sub occurs in msg as a run of consecutive tokens
Contains(msg, sub) ==
    \E k \in 0..(Len(msg) - Len(sub)) : SubSeq(msg, k + 1, k + Len(sub)) = sub

\* Resolving ep, and calling it when inv, raises nothing
LoadsOk(ep, inv) ==
    /\ ep.outcome # "resolve_raise"
    /\ inv => ep.outcome # "invoke_raise"

\* Positions of the discovered entry points called n
Matching(n) == { j \in 1..Len(discovered) : discovered[j].name = n }

\* The manager came out of NamedExtensionManager.__init__ (directly or through
\* DriverManager.__init__), not out of make_test_instance
FromNamedInit ==
    /\ pc # "start"
    /\ cls \in {"NamedExtensionManager", "DriverManager"}
    /\ test_args = <<>>

FromDriverInit == pc # "start" /\ cls = "DriverManager" /\ test_args = <<>>

\* How often x occurs in s
Count(s, x) == Cardinality({ i \in 1..Len(s) : s[i] = x })

----------------------------------------------------------------------------
\* C1: while a NamedExtensionManager is constructed, every resolve and every
\* invoke call is made on an entry point whose name is in the allow-list: an
\* excluded entry point is never resolved and never instantiated.
C1_ExcludedNeverResolved ==
    FromNamedInit =>
        \A k \in 1..Len(events) :
            events[k].op \in {"resolve", "invoke"} =>
                \E j \in 1..Len(discovered) :
                    /\ discovered[j].target = events[k].target
                    /\ InSeq(discovered[j].name, _names)

\* An excluded entry point was discovered next to a loaded one, with
\* invoke_on_load set.
C1_Witness ==
    /\ pc = "done"
    /\ cls = "NamedExtensionManager"
    /\ invoke_on_load
    /\ extensions # <<>>
    /\ \E j \in 1..Len(discovered) : ~InSeq(discovered[j].name, _names)

\* C2: after construction names() holds only names that are in the allow-list
\* and carried by a discovered entry point, every allowed entry point that
\* loaded without error is among the extensions, and construction does not
\* fail: a name without entry point is just absent, and an allow-list that
\* matches nothing gives an empty names().
C2_NamesWithinAllowList ==
    (pc # "start" /\ cls = "NamedExtensionManager") =>
        /\ pc = "done"
        /\ raised = <<>>
        /\ \A i \in 1..Len(names) :
               InSeq(names[i], _names) /\ Matching(names[i]) # {}
        /\ \A j \in 1..Len(discovered) :
               (InSeq(discovered[j].name, _names) /\ LoadsOk(discovered[j], invoke_on_load))
                   => \E i \in 1..Len(extensions) :
                          /\ extensions[i].entry_point_target = discovered[j].target
                          /\ extensions[i].name = discovered[j].name
        /\ (\A i \in 1..Len(_names) : Matching(_names[i]) = {}) => names = <<>>

\* One allowed name has no entry point, another was loaded, and an allowed
\* entry point failed to load.
C2_Witness ==
    /\ pc = "done"
    /\ cls = "NamedExtensionManager"
    /\ names # <<>>
    /\ \E i \in 1..Len(_names) : Matching(_names[i]) = {}
    /\ \E j \in 1..Len(discovered) :
           InSeq(discovered[j].name, _names) /\ ~LoadsOk(discovered[j], invoke_on_load)

\* names() as the allow-list dictates it: each name of the allow-list, at its
\* first position, as many times as allowed entry points of that name loaded.
Repeat(x, n) == [i \in 1..n |-> x]

RECURSIVE NamesInAllowListOrder(_)
NamesInAllowListOrder(k) ==
    IF k > Len(_names) THEN <<>>
    ELSE (IF \E h \in 1..(k-1) : _names[h] = _names[k]
          THEN <<>>
          ELSE Repeat(_names[k],
                      Cardinality({ j \in Matching(_names[k]) :
                                      LoadsOk(discovered[j], invoke_on_load) })))
         \o NamesInAllowListOrder(k + 1)

\* C3: with name_order the extensions are ordered by the position of their
\* name in the allow-list, so names() is the loaded names in allow-list order
\* whatever the discovery order, and the reordering is a permutation of what
\* was loaded.  Entry points a, b, c with names = ['c', 'a'] give ['c', 'a'].
C3_NameOrder ==
    (pc = "done" /\ cls = "NamedExtensionManager" /\ name_order) =>
        /\ \A i, j \in 1..Len(extensions) :
               i < j => Index(_names, extensions[i].name) <= Index(_names, extensions[j].name)
        /\ names = NamesInAllowListOrder(1)
        /\ Len(extensions) = Len(loaded)
        /\ \A i \in 1..Len(loaded) : Count(extensions, loaded[i]) = Count(loaded, loaded[i])
        /\ (/\ _names = <<"c", "a">>
            /\ { discovered[j].target : j \in 1..Len(discovered) } = {"m:A1", "m:B1", "m:C1"})
               => names = <<"c", "a">>

\* a was discovered before c, and the allow-list asks for c first.
C3_Witness ==
    /\ pc = "done"
    /\ cls = "NamedExtensionManager"
    /\ name_order
    /\ _names = <<"c", "a">>
    /\ NamesOf(loaded) = <<"a", "c">>
    /\ names = <<"c", "a">>

\* C4: a DriverManager whose name matches no entry point fails, after the
\* discovery and loading, with the error that tells the namespace and the
\* name; no DriverManager is returned with an empty extensions list.
C4_DriverNotFound ==
    /\ (FromDriverInit /\ Matching(_names[1]) = {}) =>
           /\ pc = "failed"
           /\ events = <<[op |-> "discover", target |-> namespace]>>
           /\ Len(raised) = 1
           /\ raised[1].type = "RuntimeError"
           /\ raised[1].msg = <<"No ", "'", namespace, "'", " driver found, looking for ",
                                "'", _names[1], "'">>
    /\ (pc = "done" /\ cls = "DriverManager") => extensions # <<>>

\* Entry points were discovered, none with the name asked for.
C4_Witness ==
    /\ FromDriverInit
    /\ discovered # <<>>
    /\ Matching(_names[1]) = {}
    /\ pc = "failed"

\* The error raised is the one for several drivers, and lists the targets of
\* all the entry points called _names[1], in discovery order, joined by commas.
AmbiguousRaised ==
    /\ pc = "failed"
    /\ Len(raised) = 1
    /\ raised[1].type = "RuntimeError"
    /\ LET msg == raised[1].msg
           m   == Cardinality(Matching(_names[1]))
       IN  /\ Len(msg) = 5 + (2 * m - 1)
           /\ SubSeq(msg, 1, 5) = <<"Multiple ", "'", namespace, "'", " drivers found: ">>
           /\ \A k \in 1..(m - 1) : msg[5 + 2 * k] = ","
           /\ \A j \in Matching(_names[1]) :
                  msg[5 + 2 * Cardinality({ h \in Matching(_names[1]) : h <= j }) - 1]
                      = discovered[j].target

C6_DriverIsObjWhenInstantiated ==
    ret.op = "driver" =>
        LET ext == extensions[1]
        IN  /\ ext.obj.kind # "None" => ret.val = ext.obj
            /\ ext.obj.kind = "None" => ret.val = ext.plugin

\* An error was raised while an entry point was resolved or instantiated.
LoadErrorHappened ==
    \E k \in 1..Len(events) : \E j \in 1..Len(discovered) :
        /\ discovered[j].target = events[k].target
        /\ \/ events[k].op = "resolve" /\ discovered[j].outcome = "resolve_raise"
           \/ events[k].op = "invoke" /\ discovered[j].outcome = "invoke_raise"

\* C7: an error raised while the driver is resolved or instantiated is not
\* skipped, and comes out of the constructor as the one wrapped error that
\* tells the driver name, the namespace and the cause.
C7_LoadErrorWrapped ==
    (FromDriverInit /\ LoadErrorHappened) =>
        /\ pc = "failed"
        /\ Len(raised) = 1
        /\ raised[1].type = "RuntimeError"
        /\ SubSeq(raised[1].msg, 1, 5)
               = <<"Unable to load driver ", _names[1], " from ", namespace, ": ">>
        /\ \E j \in Matching(_names[1]) : Contains(raised[1].msg, <<discovered[j].target>>)

C9_TestInstance ==
    test_args # <<>> =>
        LET a == test_args[1]
        IN  /\ pc = "done"
            /\ raised = <<>>
            /\ extensions = <<a.extension>>
            /\ events = <<>>
            /\ propagate_map_exceptions =
                   (a.propagate_map_exceptions = <<TRUE>>)
            /\ ret.op = "call" => ret.calls = <<a.extension.entry_point_target>>
            /\ ret.op = "driver" => ret.val \in {a.extension.obj, a.extension.plugin}

\* A test instance built with propagate_map_exceptions=True, then called.
C9_Witness ==
    /\ test_args # <<>>
    /\ test_args[1].propagate_map_exceptions = <<TRUE>>
    /\ ret.op = "call"

====
